---- MODULE Spec2Model ----
(***************************************************************************)
(* Collision detection among axis-aligned boxes: the Box entity, the two   *)
(* base all-pairs checkers, the recursive quadrant partitioner and the     *)
(* BoxManager with its stationary-pair cache.                              *)
(*                                                                         *)
(* Box objects live in a heap (a function from identities to records), so  *)
(* that lists hold references and "a is b" is equality of identities.      *)
(* Coordinates are integers and widths/heights are even, so width / 2 and  *)
(* the box centers are integers; the centroid quotient sum / len is        *)
(* compared by cross-multiplication, which is exact.                       *)
(* A second set of definitions (suffix 64) computes the partitioner on      *)
(* binary64 values that need the whole significand, with IEEE rounding.     *)
(***************************************************************************)
EXTENDS Integers, Sequences, FiniteSets, TLC

\* ------------------------------------------------------------------ bounds
\* Cap on len(manager.boxes) (register has no cap of its own): callers that
\* always consume yield_collisions() to the end, and callers that pull lazily.
MaxBoxes == 3
MaxLazyBoxes == 2
\* Standalone algorithms: the longest list of freely chosen boxes, and how many
\* copies of one box (MaxCopies) or of each of the others (MaxFew) a clustered
\* list holds.
MaxLen == 3
MaxCopies == 11
MaxFew == 2

\* ------------------------------------------------------- program constants
\* check_partitioned: partition(boxes, partition_size=10, max_iterations=2)
PARTITION_SIZE == 10
MAX_ITERATIONS == 2
\* check_partition_optimized: the 10 of max(10, ceil(10 / ...))
MIN_NONSTATIONARY == 10

None == "None"
Self == "manager"

\* ------------------------------------------------------------------ helpers
Range(s) == {s[i] : i \in 1..Len(s)}

Abs(n) == IF n < 0 THEN 0 - n ELSE n

Max(a, b) == IF a >= b THEN a ELSE b

\* ceil(num / den) for den > 0
CeilDiv(num, den) == 0 - ((0 - num) \div den)

RECURSIVE Flatten(_)
Flatten(ss) == IF ss = <<>> THEN <<>> ELSE Head(ss) \o Flatten(Tail(ss))

\* set(...) of a stream of tuples, reduced to unordered pairs
Unordered(pairs) == {{pr[1], pr[2]} : pr \in Range(pairs)}

\* ---------------------------------------------------------------------- Box
\* Box._after_move
after_move(b) ==
    [b EXCEPT !.x2 = b.x + b.width,
              !.y2 = b.y + b.height,
              !.cx = b.x + b.half_width,
              !.cy = b.y + b.half_height]

\* Box.__init__ (userdata is opaque and left out)
Box(x, y, width, height, stationary) ==
    after_move([x |-> x, y |-> y, width |-> width, height |-> height,
                stationary |-> stationary,
                half_width |-> width \div 2, half_height |-> height \div 2,
                x2 |-> 0, y2 |-> 0, cx |-> 0, cy |-> 0,
                manager |-> None])

\* The overlap test written inline in check_deduplicated (and, with the
\* identity test added, in check_exhaustive).
overlaps(a, b) ==
    /\ Abs(a.cx - b.cx) <= (a.half_width + b.half_width)
    /\ Abs(a.cy - b.cy) <= (a.half_height + b.half_height)

\* ---------------------------------------------------------- base algorithms
\* The (i, j) visited by "for i in range(l): for j in range(i + 1, l)", in order.
RECURSIVE IndexPairsFrom(_, _)
IndexPairsFrom(i, l) ==
    IF i >= l THEN <<>>
    ELSE [k \in 1..(l - i) |-> <<i, i + k>>] \o IndexPairsFrom(i + 1, l)

\* The (i, j) visited by "for a in boxes: for b in boxes", in order.
AllIndexPairs(l) == [k \in 1..(l * l) |-> <<((k - 1) \div l) + 1, ((k - 1) % l) + 1>>]

\* check_exhaustive without its "a is not b" test.
check_exhaustive_no_identity_test(heap, boxes) ==
    LET hit(ij) == overlaps(heap[boxes[ij[1]]], heap[boxes[ij[2]]])
        hits == SelectSeq(AllIndexPairs(Len(boxes)), hit)
    IN  [k \in 1..Len(hits) |-> <<boxes[hits[k][1]], boxes[hits[k][2]]>>]

check_exhaustive(heap, boxes) ==
    LET hit(ij) == /\ boxes[ij[1]] # boxes[ij[2]]
                   /\ overlaps(heap[boxes[ij[1]]], heap[boxes[ij[2]]])
        hits == SelectSeq(AllIndexPairs(Len(boxes)), hit)
    IN  [k \in 1..Len(hits) |-> <<boxes[hits[k][1]], boxes[hits[k][2]]>>]

check_deduplicated(heap, boxes) ==
    LET hit(ij) == overlaps(heap[boxes[ij[1]]], heap[boxes[ij[2]]])
        hits == SelectSeq(IndexPairsFrom(1, Len(boxes)), hit)
    IN  [k \in 1..Len(hits) |-> <<boxes[hits[k][1]], boxes[hits[k][2]]>>]

\* -------------------------------------------------------------- partitioner
\* estimate_center: the sums of the centers and the length they are divided
\* by; center_x is sx / n and center_y is sy / n.
RECURSIVE SumOver(_, _, _)
SumOver(heap, boxes, field) ==
    IF boxes = <<>> THEN 0
    ELSE heap[Head(boxes)][field] + SumOver(heap, Tail(boxes), field)

estimate_center(heap, boxes) ==
    [sx |-> SumOver(heap, boxes, "cx"), sy |-> SumOver(heap, boxes, "cy"),
     n |-> Len(boxes)]

\* x / len(boxes) of estimate_center divides by zero on the empty list.
estimate_center_raises(boxes) == Len(boxes) = 0

\* partition_quadrants with strict comparisons against the center.
partition_quadrants_strict(heap, boxes) ==
    LET c == estimate_center(heap, boxes)
        left(b) == heap[b].x * c.n < c.sx
        right(b) == heap[b].x2 * c.n > c.sx
        bottom(b) == heap[b].y * c.n < c.sy
        top(b) == heap[b].y2 * c.n > c.sy
        bl(b) == left(b) /\ bottom(b)
        ul(b) == left(b) /\ top(b)
        br(b) == right(b) /\ bottom(b)
        ur(b) == right(b) /\ top(b)
    IN  <<SelectSeq(boxes, bl), SelectSeq(boxes, ul),
          SelectSeq(boxes, br), SelectSeq(boxes, ur)>>

\* partition_quadrants: <<bl, ul, br, ur>>, each in the order of boxes.
\* v <= center is v * n <= sum, and v >= center is v * n >= sum (n > 0).
partition_quadrants(heap, boxes) ==
    LET c == estimate_center(heap, boxes)
        left(b) == heap[b].x * c.n <= c.sx
        right(b) == heap[b].x2 * c.n >= c.sx
        bottom(b) == heap[b].y * c.n <= c.sy
        top(b) == heap[b].y2 * c.n >= c.sy
        bl(b) == left(b) /\ bottom(b)
        ul(b) == left(b) /\ top(b)
        br(b) == right(b) /\ bottom(b)
        ur(b) == right(b) /\ top(b)
    IN  <<SelectSeq(boxes, bl), SelectSeq(boxes, ul),
          SelectSeq(boxes, br), SelectSeq(boxes, ur)>>

\* The leaf test of partition's loop: yield p instead of recursing.
is_leaf(p, parent_len, partition_size) ==
    Len(p) <= partition_size \/ Len(p) = parent_len

\* partition with its recursion floor one level further down.
RECURSIVE partition_deeper(_, _, _, _, _)
partition_deeper(heap, boxes, partition_size, max_iterations, iteration) ==
    IF iteration = max_iterations + 1 THEN <<boxes>>
    ELSE LET q == partition_quadrants(heap, boxes)
             sub(p) == IF is_leaf(p, Len(boxes), partition_size) THEN <<p>>
                       ELSE partition_deeper(heap, p, partition_size,
                                             max_iterations, iteration + 1)
         IN  sub(q[1]) \o sub(q[2]) \o sub(q[3]) \o sub(q[4])

\* partition: the sequence of the groups it yields.
RECURSIVE partition(_, _, _, _, _)
partition(heap, boxes, partition_size, max_iterations, iteration) ==
    IF iteration = max_iterations THEN <<boxes>>
    ELSE LET q == partition_quadrants(heap, boxes)
             sub(p) == IF is_leaf(p, Len(boxes), partition_size) THEN <<p>>
                       ELSE partition(heap, p, partition_size, max_iterations,
                                      iteration + 1)
         IN  sub(q[1]) \o sub(q[2]) \o sub(q[3]) \o sub(q[4])

\* partition again, each yielded group with where it was yielded: the length
\* of the list it was split from (the list of the call whose loop made it) and
\* the iteration of the call that yielded it.
RECURSIVE partition_leaves(_, _, _, _, _, _)
partition_leaves(heap, boxes, partition_size, max_iterations, iteration, parent_len) ==
    IF iteration = max_iterations
    THEN <<[p |-> boxes, plen |-> parent_len, it |-> iteration]>>
    ELSE LET q == partition_quadrants(heap, boxes)
             sub(p) == IF is_leaf(p, Len(boxes), partition_size)
                       THEN <<[p |-> p, plen |-> Len(boxes), it |-> iteration]>>
                       ELSE partition_leaves(heap, p, partition_size, max_iterations,
                                             iteration + 1, Len(boxes))
         IN  sub(q[1]) \o sub(q[2]) \o sub(q[3]) \o sub(q[4])

\* check_partitioned yielding every overlapping pair once only.
check_partitioned_deduplicating(heap, boxes) ==
    IF Len(boxes) = 0 THEN <<>> ELSE check_deduplicated(heap, boxes)

check_partitioned(heap, boxes) ==
    IF Len(boxes) = 0 THEN <<>>
    ELSE LET parts == partition(heap, boxes, PARTITION_SIZE, MAX_ITERATIONS, 0)
         IN  Flatten([k \in 1..Len(parts) |-> check_deduplicated(heap, parts[k])])

\* ------------------------------------------------- check_partition_optimized
\* The (stationary_count, len(boxes)) with len(boxes) <= 15 at which the
\* floating-point 10 / (1 - stationary_count / len(boxes)) lands just above
\* the integer it equals in exact arithmetic, so that math.ceil gives one more.
CeilExcess ==
    {<<4, 5>>, <<5, 6>>, <<8, 10>>, <<9, 10>>, <<9, 11>>, <<7, 12>>, <<10, 12>>,
     <<3, 13>>, <<8, 13>>, <<12, 13>>, <<9, 14>>, <<13, 14>>, <<12, 15>>,
     <<13, 15>>, <<14, 15>>}

\* max(10, math.ceil(10 / (1 - stationary_count / len(boxes)))), for
\* stationary_count # len(boxes) (the quotient is 10 * n / (n - stationary_count)).
optimized_partition_size(stationary_count, n) ==
    IF stationary_count > n THEN MIN_NONSTATIONARY
    ELSE Max(MIN_NONSTATIONARY,
             CeilDiv(MIN_NONSTATIONARY * n, n - stationary_count)
             + (IF <<stationary_count, n>> \in CeilExcess THEN 1 ELSE 0))

\* The partition-size formula divides by len(boxes), and by
\* 1 - stationary_count / len(boxes), which is zero when every box is stationary.
optimized_partition_size_raises(stationary_count, n) ==
    n = 0 \/ stationary_count = n

\* part.sort(key=lambda b: b.stationary): stable, False before True.
sort_by_stationary(heap, part) ==
    LET moving(b) == ~heap[b].stationary
        fixed(b) == heap[b].stationary
    IN  SelectSeq(part, moving) \o SelectSeq(part, fixed)

\* The scan of one sorted part: the outer loop breaks at the first
\* stationary part[i].
RECURSIVE optimized_index_pairs(_, _, _)
optimized_index_pairs(heap, part, i) ==
    IF i > Len(part) THEN <<>>
    ELSE IF heap[part[i]].stationary THEN <<>>
    ELSE (IF i = Len(part) THEN <<>>
          ELSE [k \in 1..(Len(part) - i) |-> <<i, i + k>>])
         \o optimized_index_pairs(heap, part, i + 1)

check_part_optimized(heap, leaf) ==
    LET part == sort_by_stationary(heap, leaf)
        hit(ij) == overlaps(heap[part[ij[1]]], heap[part[ij[2]]])
        hits == SelectSeq(optimized_index_pairs(heap, part, 1), hit)
    IN  [k \in 1..Len(hits) |-> <<part[hits[k][1]], part[hits[k][2]]>>]

check_partition_optimized(heap, boxes, stationary_count) ==
    IF Len(boxes) = 0 THEN <<>>
    ELSE LET partition_size == optimized_partition_size(stationary_count, Len(boxes))
             parts == partition(heap, boxes, partition_size, MAX_ITERATIONS, 0)
         IN  Flatten([k \in 1..Len(parts) |-> check_part_optimized(heap, parts[k])])

\* ------------------------------------------- the same in binary64 arithmetic
\* The definitions above compute with small integers, on which Python's float
\* arithmetic is exact.  Here a float is a non-negative multiple of 2^-53, held
\* as the number of such quanta in two limbs (hi * 2^28 + lo), and every
\* operation rounds its exact result to 53 significant bits, ties to even, as
\* IEEE 754 binary64 does.  Sums and differences of such values are whole
\* numbers of quanta; a quotient is, once it is 0.5 or more.
SignificandBits == 53

Limb == 2^28

BigNorm(hi, lo) == [hi |-> hi + (lo \div Limb), lo |-> lo % Limb]

\* 2^e + off quanta, for e >= 29 and a small off
Near(e, off) ==
    IF off >= 0 THEN [hi |-> 2^(e - 28), lo |-> off]
    ELSE [hi |-> 2^(e - 28) - 1, lo |-> Limb + off]

RECURSIVE BitLen(_)
BitLen(n) == IF n = 0 THEN 0 ELSE 1 + BitLen(n \div 2)

BigBitLen(a) == IF a.hi = 0 THEN BitLen(a.lo) ELSE 28 + BitLen(a.hi)

BigLe(a, b) == a.hi < b.hi \/ (a.hi = b.hi /\ a.lo <= b.lo)

\* The bits a result of this length loses: 2^r quanta is one unit in its last
\* place.
LostBits(len) == IF len > SignificandBits THEN len - SignificandBits ELSE 0

\* Round a whole number of quanta to 53 significant bits, ties to even.
fl(a) ==
    LET r == LostBits(BigBitLen(a))
        low == a.lo % (2^r)
        odd == ((a.lo \div (2^r)) % 2) = 1
        up == 2 * low > 2^r \/ (2 * low = 2^r /\ odd)
    IN  IF r = 0 THEN a
        ELSE BigNorm(a.hi, a.lo - low + (IF up THEN 2^r ELSE 0))

\* a + b
fadd(a, b) == fl(BigNorm(a.hi + b.hi, a.lo + b.lo))

\* abs(a - b)
fabsdiff(a, b) ==
    LET big == IF BigLe(b, a) THEN a ELSE b
        small == IF BigLe(b, a) THEN b ELSE a
    IN  fl(IF big.lo >= small.lo
           THEN [hi |-> big.hi - small.hi, lo |-> big.lo - small.lo]
           ELSE [hi |-> big.hi - small.hi - 1, lo |-> big.lo - small.lo + Limb])

\* a / 2 for an even number of quanta: exact
fhalf(a) == [hi |-> a.hi \div 2, lo |-> (a.hi % 2) * (Limb \div 2) + (a.lo \div 2)]

\* a / n for an integer n in 1..7 and a quotient of 0.5 or more: the exact
\* quotient and remainder, rounded to 53 significant bits, ties to even.
fdiv(a, n) ==
    LET qh == a.hi \div n
        t == (a.hi % n) * Limb + a.lo
        ql == t \div n
        rem == t % n
        r == LostBits(BigBitLen([hi |-> qh, lo |-> ql]))
        low == ql % (2^r)
        odd == ((ql \div (2^r)) % 2) = 1
        lost == low * n + rem
        up == 2 * lost > (2^r) * n \/ (2 * lost = (2^r) * n /\ odd)
    IN  BigNorm(qh, ql - low + (IF up THEN 2^r ELSE 0))

\* Box._after_move and Box.__init__ over binary64 values
after_move64(b) ==
    [b EXCEPT !.x2 = fadd(b.x, b.width),
              !.y2 = fadd(b.y, b.height),
              !.cx = fadd(b.x, b.half_width),
              !.cy = fadd(b.y, b.half_height)]

Zero64 == [hi |-> 0, lo |-> 0]

Box64(x, y, width, height) ==
    after_move64([x |-> x, y |-> y, width |-> width, height |-> height,
                  stationary |-> FALSE,
                  half_width |-> fhalf(width), half_height |-> fhalf(height),
                  x2 |-> Zero64, y2 |-> Zero64, cx |-> Zero64, cy |-> Zero64,
                  manager |-> None])

overlaps64(a, b) ==
    /\ BigLe(fabsdiff(a.cx, b.cx), fadd(a.half_width, b.half_width))
    /\ BigLe(fabsdiff(a.cy, b.cy), fadd(a.half_height, b.half_height))

check_deduplicated64(heap, boxes) ==
    LET hit(ij) == overlaps64(heap[boxes[ij[1]]], heap[boxes[ij[2]]])
        hits == SelectSeq(IndexPairsFrom(1, Len(boxes)), hit)
    IN  [k \in 1..Len(hits) |-> <<boxes[hits[k][1]], boxes[hits[k][2]]>>]

\* x = 0.0; for b in boxes: x += b.cx
RECURSIVE SumOver64(_, _, _, _)
SumOver64(heap, boxes, field, acc) ==
    IF boxes = <<>> THEN acc
    ELSE SumOver64(heap, Tail(boxes), field, fadd(acc, heap[Head(boxes)][field]))

\* estimate_center: (x / len(boxes), y / len(boxes))
estimate_center64(heap, boxes) ==
    [x |-> fdiv(SumOver64(heap, boxes, "cx", Zero64), Len(boxes)),
     y |-> fdiv(SumOver64(heap, boxes, "cy", Zero64), Len(boxes))]

partition_quadrants64(heap, boxes) ==
    LET c == estimate_center64(heap, boxes)
        left(b) == BigLe(heap[b].x, c.x)
        right(b) == BigLe(c.x, heap[b].x2)
        bottom(b) == BigLe(heap[b].y, c.y)
        top(b) == BigLe(c.y, heap[b].y2)
        bl(b) == left(b) /\ bottom(b)
        ul(b) == left(b) /\ top(b)
        br(b) == right(b) /\ bottom(b)
        ur(b) == right(b) /\ top(b)
    IN  <<SelectSeq(boxes, bl), SelectSeq(boxes, ul),
          SelectSeq(boxes, br), SelectSeq(boxes, ur)>>

RECURSIVE partition64(_, _, _, _, _)
partition64(heap, boxes, partition_size, max_iterations, iteration) ==
    IF iteration = max_iterations THEN <<boxes>>
    ELSE LET q == partition_quadrants64(heap, boxes)
             sub(p) == IF is_leaf(p, Len(boxes), partition_size) THEN <<p>>
                       ELSE partition64(heap, p, partition_size, max_iterations,
                                        iteration + 1)
         IN  sub(q[1]) \o sub(q[2]) \o sub(q[3]) \o sub(q[4])

check_partitioned64(heap, boxes) ==
    IF Len(boxes) = 0 THEN <<>>
    ELSE LET parts == partition64(heap, boxes, PARTITION_SIZE, MAX_ITERATIONS, 0)
         IN  Flatten([k \in 1..Len(parts) |-> check_deduplicated64(heap, parts[k])])

\* ------------------------------------------------------------- BoxManager
\* BoxManager.__init__
BoxManager ==
    [boxes |-> <<>>, stationary_cache |-> <<>>,
     stationary_cache_valid |-> TRUE, stationary_count |-> 0]

\* BoxManager.invalidate_stationary_cache
invalidate_stationary_cache(self) == [self EXCEPT !.stationary_cache_valid = FALSE]

\* BoxManager.register: the manager and the heap after the call.
register(self, heap, b) ==
    LET appended == [self EXCEPT !.boxes = Append(@, b)]
    IN  [manager |-> IF heap[b].stationary
                     THEN [appended EXCEPT !.stationary_cache_valid = FALSE,
                                           !.stationary_count = @ + 1]
                     ELSE appended,
         heap |-> [heap EXCEPT ![b].manager = Self],
         raised |-> None]

\* list.remove(x): drops the first occurrence.
list_remove(s, e) ==
    LET i == CHOOSE k \in 1..Len(s) : s[k] = e /\ \A j \in 1..(k - 1) : s[j] # e
    IN  SubSeq(s, 1, i - 1) \o SubSeq(s, i + 1, Len(s))

\* remove with stationary_count decremented for every box, stationary or not.
remove_always_decrements(self, heap, b) ==
    IF b \notin Range(self.boxes)
    THEN [manager |-> self, heap |-> heap, raised |-> "ValueError"]
    ELSE LET removed == [self EXCEPT !.boxes = list_remove(@, b),
                                     !.stationary_count = @ - 1]
         IN  [manager |-> IF heap[b].stationary
                          THEN invalidate_stationary_cache(removed)
                          ELSE removed,
              heap |-> [heap EXCEPT ![b].manager = None],
              raised |-> None]

\* remove with list.remove as its last statement: a missing box raises only
\* after the back-reference, the flag and the count were changed.
remove_raises_last(self, heap, b) ==
    LET updated == IF heap[b].stationary
                   THEN [invalidate_stationary_cache(self)
                             EXCEPT !.stationary_count = @ - 1]
                   ELSE self
        cleared == [heap EXCEPT ![b].manager = None]
    IN  IF b \notin Range(self.boxes)
        THEN [manager |-> updated, heap |-> cleared, raised |-> "ValueError"]
        ELSE [manager |-> [updated EXCEPT !.boxes = list_remove(@, b)],
              heap |-> cleared, raised |-> None]

\* BoxManager.remove: list.remove raises ValueError before anything is changed
\* when the box is not in the list.
remove(self, heap, b) ==
    IF b \notin Range(self.boxes)
    THEN [manager |-> self, heap |-> heap, raised |-> "ValueError"]
    ELSE LET removed == [self EXCEPT !.boxes = list_remove(@, b)]
         IN  [manager |-> IF heap[b].stationary
                          THEN [invalidate_stationary_cache(removed)
                                    EXCEPT !.stationary_count = @ - 1]
                          ELSE removed,
              heap |-> [heap EXCEPT ![b].manager = None],
              raised |-> None]

\* move that notifies the manager for every owned box, stationary or not.
move_always_invalidates(self, heap, b, new_x, new_y) ==
    LET moved == after_move([heap[b] EXCEPT !.x = new_x, !.y = new_y])
    IN  [manager |-> IF moved.manager # None
                     THEN invalidate_stationary_cache(self)
                     ELSE self,
         heap |-> [heap EXCEPT ![b] = moved],
         raised |-> None]

\* Box.move: the box's manager is the one manager or None.
move(self, heap, b, new_x, new_y) ==
    LET moved == after_move([heap[b] EXCEPT !.x = new_x, !.y = new_y])
    IN  [manager |-> IF moved.manager # None /\ moved.stationary
                     THEN invalidate_stationary_cache(self)
                     ELSE self,
         heap |-> [heap EXCEPT ![b] = moved],
         raised |-> None]

\* ------------------------------------------- yield_collisions, pull by pull
\* yield_collisions is a generator: between two pulls the caller may register,
\* remove and move boxes, and every comparison reads the boxes as they are when
\* it is made.  A suspended generator is a record:
\*   branch  the arm of yield_collisions taken at the first pull
\*   phase   "cache" while yielding from the cache, "scan" inside the partitioner
\*   snap, k the list being yielded from and the next index in it
\*   opt     scanning as check_partition_optimized (sort, break at stationary)
\*   size    the partition size of the running partition call
\*   work    the quadrants the loops of partition have not visited yet, innermost
\*           first: p, the iteration of the call that made it, and the length of
\*           that call's list (top: the call's list is the manager's own list)
\*   active, leaf, i, j   the running scan of one yielded group (1-based)
NoGen ==
    [state |-> "none", branch |-> "", phase |-> "", snap |-> <<>>, k |-> 0,
     opt |-> FALSE, size |-> 0, work |-> <<>>, active |-> FALSE, leaf |-> <<>>,
     i |-> 0, j |-> 0]

\* One running pull: the generator, the manager it acts on, what it yielded
\* (<<>> or one pair), whether it ended (StopIteration) and the exception that
\* ended it, if any.
Pull(g, self) ==
    [g |-> g, self |-> self, out |-> <<>>, stop |-> FALSE, raised |-> None]

\* An exception leaves the generator: it is finished.
raise(ms, exception) == [ms EXCEPT !.stop = TRUE, !.raised = exception]

\* for p in partition_quadrants(boxes): the four pending iterations
quadrant_items(heap, boxes, top, iteration) ==
    LET q == partition_quadrants(heap, boxes)
    IN  [n \in 1..4 |-> [p |-> q[n], top |-> top, plen |-> Len(boxes),
                         it |-> iteration]]

\* The first step of partition(boxes, partition_size, MAX_ITERATIONS) over the
\* manager's list, after the len(boxes) == 0 test of its caller.
scan_start(ms, heap, branch, partition_size, opt) ==
    IF Len(ms.self.boxes) = 0 THEN [ms EXCEPT !.stop = TRUE]
    ELSE IF estimate_center_raises(ms.self.boxes) THEN raise(ms, "ZeroDivisionError")
    ELSE [ms EXCEPT !.g = [NoGen EXCEPT !.state = "suspended", !.branch = branch,
                                        !.phase = "scan", !.opt = opt,
                                        !.size = partition_size,
                                        !.work = quadrant_items(heap, ms.self.boxes,
                                                                TRUE, 0)]]

\* A pair found by the scan reaches the body of yield_collisions: the rebuild arm
\* appends it to the cache when both boxes are stationary, then it is yielded.
scan_emit(ms, heap, a, b) ==
    [ms EXCEPT !.out = <<<<a, b>>>>,
               !.self.stationary_cache =
                   IF ms.g.branch = "rebuild" /\ heap[a].stationary /\ heap[b].stationary
                   THEN Append(@, <<a, b>>) ELSE @]

\* One step of the scan: a comparison, a loop header, or the next quadrant.
scan_step(ms, heap) ==
    LET g == ms.g
        l == Len(g.leaf)
    IN  IF g.active
        THEN IF g.i > l THEN [ms EXCEPT !.g.active = FALSE]
             ELSE IF g.opt /\ heap[g.leaf[g.i]].stationary
                  THEN [ms EXCEPT !.g.active = FALSE]
             ELSE IF g.j > l THEN [ms EXCEPT !.g.i = g.i + 1, !.g.j = g.i + 2]
             ELSE LET a == g.leaf[g.i]
                      b == g.leaf[g.j]
                      at == [ms EXCEPT !.g.j = g.j + 1]
                  IN  IF overlaps(heap[a], heap[b]) THEN scan_emit(at, heap, a, b)
                      ELSE at
        ELSE IF g.work = <<>> THEN [ms EXCEPT !.stop = TRUE]
        ELSE LET item == Head(g.work)
                 parent_len == IF item.top THEN Len(ms.self.boxes) ELSE item.plen
             IN  IF \/ is_leaf(item.p, parent_len, g.size)
                    \/ item.it + 1 = MAX_ITERATIONS
                 THEN [ms EXCEPT !.g.work = Tail(g.work), !.g.active = TRUE,
                                 !.g.leaf = IF g.opt
                                            THEN sort_by_stationary(heap, item.p)
                                            ELSE item.p,
                                 !.g.i = 1, !.g.j = 2]
                 ELSE IF estimate_center_raises(item.p)
                 THEN raise(ms, "ZeroDivisionError")
                 ELSE [ms EXCEPT !.g.work =
                           quadrant_items(heap, item.p, FALSE, item.it + 1)
                           \o Tail(g.work)]

\* The cached arm going on, after the cache, to a full check_partitioned scan
\* whatever the boxes are.
cache_step_always_scans(ms, heap) ==
    LET g == ms.g
    IN  IF g.k <= Len(g.snap)
        THEN [ms EXCEPT !.out = <<g.snap[g.k]>>, !.g.k = g.k + 1]
        ELSE scan_start(ms, heap, "cached", PARTITION_SIZE, FALSE)

\* The cached arm without its all-stationary return.
cache_step_without_return(ms, heap) ==
    LET g == ms.g
    IN  IF g.k <= Len(g.snap)
        THEN [ms EXCEPT !.out = <<g.snap[g.k]>>, !.g.k = g.k + 1]
        ELSE IF Len(ms.self.boxes) = 0 THEN [ms EXCEPT !.stop = TRUE]
        ELSE IF optimized_partition_size_raises(ms.self.stationary_count,
                                                Len(ms.self.boxes))
             THEN raise(ms, "ZeroDivisionError")
        ELSE scan_start(ms, heap, "cached",
                        optimized_partition_size(ms.self.stationary_count,
                                                 Len(ms.self.boxes)), TRUE)

\* The cached arm: yield from self.stationary_cache, then the all-stationary
\* return, then check_partition_optimized over the manager's list.
cache_step(ms, heap) ==
    LET g == ms.g
    IN  IF g.k <= Len(g.snap)
        THEN [ms EXCEPT !.out = <<g.snap[g.k]>>, !.g.k = g.k + 1]
        ELSE IF Len(ms.self.boxes) = ms.self.stationary_count
             THEN [ms EXCEPT !.stop = TRUE]
        ELSE IF Len(ms.self.boxes) = 0 THEN [ms EXCEPT !.stop = TRUE]
        ELSE IF optimized_partition_size_raises(ms.self.stationary_count,
                                                Len(ms.self.boxes))
             THEN raise(ms, "ZeroDivisionError")
        ELSE scan_start(ms, heap, "cached",
                        optimized_partition_size(ms.self.stationary_count,
                                                 Len(ms.self.boxes)), TRUE)

\* Run until the next yield or the end.
RECURSIVE advance(_, _)
advance(ms, heap) ==
    IF ms.out # <<>> \/ ms.stop THEN ms
    ELSE advance(IF ms.g.phase = "cache" THEN cache_step(ms, heap)
                 ELSE scan_step(ms, heap), heap)

\* The arm of yield_collisions a call takes.
yield_branch(self) ==
    IF self.stationary_count = 0 THEN "partitioned"
    ELSE IF ~self.stationary_cache_valid THEN "rebuild"
    ELSE "cached"

\* The first next() on yield_collisions(): the arm is chosen now.
first_next(self, heap) ==
    IF self.stationary_count = 0
    THEN advance(scan_start(Pull(NoGen, self), heap, "partitioned",
                            PARTITION_SIZE, FALSE), heap)
    ELSE IF ~self.stationary_cache_valid
    THEN advance(scan_start(Pull(NoGen, [self EXCEPT !.stationary_cache = <<>>]),
                            heap, "rebuild", PARTITION_SIZE, FALSE), heap)
    ELSE advance(Pull([NoGen EXCEPT !.state = "suspended", !.branch = "cached",
                                    !.phase = "cache",
                                    !.snap = self.stationary_cache, !.k = 1],
                      self), heap)

\* A later next(): the rebuild arm resumes at the statement after its yield,
\* which sets the flag, and goes round the loop.
resume_next(g, self, heap) ==
    advance(Pull(g, IF g.branch = "rebuild"
                    THEN [self EXCEPT !.stationary_cache_valid = TRUE]
                    ELSE self), heap)

\* list(manager.yield_collisions()): every pull up to StopIteration.
RECURSIVE drain(_, _, _)
drain(ms, heap, acc) ==
    IF ms.stop THEN [manager |-> ms.self, out |-> acc, raised |-> ms.raised]
    ELSE drain(resume_next(ms.g, ms.self, heap), heap, acc \o ms.out)

yield_collisions(self, heap) == drain(first_next(self, heap), heap, <<>>)

\* ------------------------------------------------------------------- state
\* manager  the one BoxManager
\* heap     the Box objects, by identity
\* gen      the suspended yield_collisions() generator a caller holds, if any
\* last     the call just made and what it returned or raised
\* alg      a standalone algorithm call: its input list, its name, its other
\*          arguments, its output and the exception it raised
VARIABLES manager, heap, gen, last, alg

vars == <<manager, heap, gen, last, alg>>

NoCall ==
    [op |-> "none", box |-> 0, raised |-> None, out |-> <<>>, stop |-> FALSE,
     branch |-> ""]

AlgIdle ==
    [input |-> <<>>, op |-> "idle", args |-> <<>>, out |-> <<>>, raised |-> None]

\* The box objects of the manager specifications, all 2 x 2: two stationary
\* boxes and one that is not.
BoxIds == {1, 2, 3}
StationaryIds == {1, 2}

\* Where those boxes are moved to: boxes at the same point overlap and straddle
\* their centroid, boxes at different points are clear of each other.
Points == {<<0, 0>>, <<8, 8>>}

Init ==
    /\ manager = BoxManager
    /\ heap = [b \in BoxIds |-> Box(0, 0, 2, 2, b \in StationaryIds)]
    /\ gen = NoGen
    /\ last = NoCall
    /\ alg = AlgIdle

\* manager.register(b), for any box object, registered already or not
Register(b, cap) ==
    /\ Len(manager.boxes) < cap
    /\ LET r == register(manager, heap, b)
       IN  /\ manager' = r.manager
           /\ heap' = r.heap
           /\ last' = [NoCall EXCEPT !.op = "register", !.box = b]
    /\ UNCHANGED <<gen, alg>>

\* manager.remove(b), for any box object, registered or not
Remove(b) ==
    /\ LET r == remove(manager, heap, b)
       IN  /\ manager' = r.manager
           /\ heap' = r.heap
           /\ last' = [NoCall EXCEPT !.op = "remove", !.box = b, !.raised = r.raised]
    /\ UNCHANGED <<gen, alg>>

\* b.move(x, y), for any box object
Move(b, pt) ==
    /\ LET r == move(manager, heap, b, pt[1], pt[2])
       IN  /\ manager' = r.manager
           /\ heap' = r.heap
           /\ last' = [NoCall EXCEPT !.op = "move", !.box = b]
    /\ UNCHANGED <<gen, alg>>

\* manager.invalidate_stationary_cache(), called by the user of the manager
Invalidate ==
    /\ manager' = invalidate_stationary_cache(manager)
    /\ last' = [NoCall EXCEPT !.op = "invalidate"]
    /\ UNCHANGED <<heap, gen, alg>>

\* list(manager.yield_collisions())
YieldAll ==
    /\ LET r == yield_collisions(manager, heap)
       IN  /\ manager' = r.manager
           /\ last' = [NoCall EXCEPT !.op = "yield_all", !.out = r.out, !.stop = TRUE,
                                     !.raised = r.raised,
                                     !.branch = yield_branch(manager)]
    /\ UNCHANGED <<heap, gen, alg>>

\* g = manager.yield_collisions(); next(g)
GenFirst ==
    /\ gen.state = "none"
    /\ LET r == first_next(manager, heap)
       IN  /\ manager' = r.self
           /\ gen' = IF r.stop THEN NoGen ELSE r.g
           /\ last' = [NoCall EXCEPT !.op = "first_next", !.out = r.out,
                                     !.stop = r.stop, !.raised = r.raised,
                                     !.branch = yield_branch(manager)]
    /\ UNCHANGED <<heap, alg>>

\* next(g) on the suspended generator
GenNext ==
    /\ gen.state = "suspended"
    /\ LET r == resume_next(gen, manager, heap)
       IN  /\ manager' = r.self
           /\ gen' = IF r.stop THEN NoGen ELSE r.g
           /\ last' = [NoCall EXCEPT !.op = "next", !.out = r.out, !.stop = r.stop,
                                     !.raised = r.raised, !.branch = gen.branch]
    /\ UNCHANGED <<heap, alg>>

\* The caller drops the generator without finishing it.
GenDrop ==
    /\ gen.state = "suspended"
    /\ gen' = NoGen
    /\ last' = [NoCall EXCEPT !.op = "drop"]
    /\ UNCHANGED <<manager, heap, alg>>

\* Callers that always consume yield_collisions() to the end.
Next ==
    \/ \E b \in DOMAIN heap : Register(b, MaxBoxes)
    \/ \E b \in DOMAIN heap : Remove(b)
    \/ \E b \in DOMAIN heap, pt \in Points : Move(b, pt)
    \/ Invalidate
    \/ YieldAll

Spec == Init /\ [][Next]_vars

\* Callers that may also pull pair by pair and stop early, over the two
\* stationary boxes.
InitLazy ==
    /\ manager = BoxManager
    /\ heap = [b \in StationaryIds |-> Box(0, 0, 2, 2, TRUE)]
    /\ gen = NoGen
    /\ last = NoCall
    /\ alg = AlgIdle

NextLazy ==
    \/ \E b \in DOMAIN heap : Register(b, MaxLazyBoxes)
    \/ \E b \in DOMAIN heap : Remove(b)
    \/ \E b \in DOMAIN heap, pt \in Points : Move(b, pt)
    \/ Invalidate
    \/ YieldAll
    \/ GenFirst
    \/ GenNext
    \/ GenDrop

SpecLazy == InitLazy /\ [][NextLazy]_vars

\* ------------------------------------------------- the standalone algorithms
\* Freely chosen boxes: corners on a small grid; a point, a square, a flat and
\* an upright segment (the two segments can cross without a corner of one
\* inside the other).
GridX == {0, 1, 3}
GridY == {0, 2}
Shapes == {<<0, 0>>, <<2, 2>>, <<4, 0>>, <<0, 4>>}
GridBoxes == {Box(x, y, wh[1], wh[2], FALSE) : x \in GridX, y \in GridY, wh \in Shapes}

\* Clustered boxes: a copies of one square, b of a square touching it, c of a
\* square beside it and d of a square far away, so that a quadrant holds more
\* than PARTITION_SIZE boxes and is partitioned again.
cluster(a, b, c, d) ==
    [k \in 1..(a + b + c + d) |->
        IF k <= a THEN Box(0, 0, 2, 2, FALSE)
        ELSE IF k <= a + b THEN Box(2, 2, 2, 2, FALSE)
        ELSE IF k <= a + b + c THEN Box(6, 0, 2, 2, FALSE)
        ELSE Box(40, 40, 2, 2, FALSE)]

InitAlg ==
    /\ manager = BoxManager
    /\ gen = NoGen
    /\ last = NoCall
    /\ \/ \E n \in 0..MaxLen : heap \in [1..n -> GridBoxes]
       \/ \E a \in 0..MaxCopies, b \in 0..MaxFew, c \in 0..MaxFew, d \in 0..MaxFew :
             heap = cluster(a, b, c, d)
    /\ alg = [AlgIdle EXCEPT !.input = [k \in DOMAIN heap |-> k], !.op = "none"]

\* list(check_exhaustive(boxes))
RunExhaustive ==
    /\ alg.op = "none"
    /\ alg' = [alg EXCEPT !.op = "check_exhaustive",
                          !.out = check_exhaustive(heap, alg.input)]
    /\ UNCHANGED <<manager, heap, gen, last>>

\* list(check_deduplicated(boxes))
RunDeduplicated ==
    /\ alg.op = "none"
    /\ alg' = [alg EXCEPT !.op = "check_deduplicated",
                          !.out = check_deduplicated(heap, alg.input)]
    /\ UNCHANGED <<manager, heap, gen, last>>

\* list(check_partitioned(boxes))
RunPartitioned ==
    /\ alg.op = "none"
    /\ alg' = [alg EXCEPT !.op = "check_partitioned",
                          !.out = check_partitioned(heap, alg.input)]
    /\ UNCHANGED <<manager, heap, gen, last>>

\* partition_quadrants(boxes): the tuple of its four lists
RunPartitionQuadrants ==
    /\ alg.op = "none"
    /\ alg' = IF estimate_center_raises(alg.input)
              THEN [alg EXCEPT !.op = "partition_quadrants",
                               !.raised = "ZeroDivisionError"]
              ELSE [alg EXCEPT !.op = "partition_quadrants",
                               !.out = partition_quadrants(heap, alg.input)]
    /\ UNCHANGED <<manager, heap, gen, last>>

\* The partition sizes and iteration limits partition is called with: those of
\* check_partitioned and smaller ones.
PartitionSizes == {2, PARTITION_SIZE}
IterationLimits == 0..MAX_ITERATIONS

\* list(partition(boxes, partition_size, max_iterations))
RunPartition(partition_size, max_iterations) ==
    /\ alg.op = "none"
    /\ alg' = IF max_iterations # 0 /\ estimate_center_raises(alg.input)
              THEN [alg EXCEPT !.op = "partition",
                               !.args = <<partition_size, max_iterations>>,
                               !.raised = "ZeroDivisionError"]
              ELSE [alg EXCEPT !.op = "partition",
                               !.args = <<partition_size, max_iterations>>,
                               !.out = partition(heap, alg.input, partition_size,
                                                 max_iterations, 0)]
    /\ UNCHANGED <<manager, heap, gen, last>>

NextAlg ==
    \/ RunExhaustive
    \/ RunDeduplicated
    \/ RunPartitioned
    \/ RunPartitionQuadrants
    \/ \E ps \in PartitionSizes, mi \in IterationLimits : RunPartition(ps, mi)

SpecAlg == InitAlg /\ [][NextAlg]_vars

\* ------------------------------------ the standalone algorithms in binary64
\* Three boxes of height 2.0 at y = 0.0, sizes in quanta of 2^-53:
\*   a  at x = 0.0, its right edge a few units in the last place below 2.0
\*   b  its left edge one or two units in the last place right of a's right
\*      edge, and about 4.0 wide
\*   d  a point just below x = 1.0
UlpsBelowTwo == 1..6
GapQuanta == {2, 4}
WidthOffsets == {0 - 16, 0, 16}
PointOffsets == (0 - 12)..0

IsDouble(v) == fl(v) = v

Boxes64 ==
    {<<Box64(Zero64, Zero64, Near(54, 0 - 2 * k), Near(54, 0)),
       Box64(Near(54, g - 2 * k), Zero64, Near(55, j), Near(54, 0)),
       Box64(Near(53, dd), Zero64, Zero64, Near(54, 0))>> :
        <<k, g, j, dd>> \in
            {t \in UlpsBelowTwo \X GapQuanta \X WidthOffsets \X PointOffsets :
                t[2] < 2 * t[1] /\ IsDouble(Near(55, t[3]))}}

InitFloat ==
    /\ manager = BoxManager
    /\ gen = NoGen
    /\ last = NoCall
    /\ heap \in Boxes64
    /\ alg = [AlgIdle EXCEPT !.input = [k \in DOMAIN heap |-> k], !.op = "none"]

\* list(check_deduplicated(boxes))
RunDeduplicated64 ==
    /\ alg.op = "none"
    /\ alg' = [alg EXCEPT !.op = "check_deduplicated",
                          !.out = check_deduplicated64(heap, alg.input)]
    /\ UNCHANGED <<manager, heap, gen, last>>

\* list(check_partitioned(boxes))
RunPartitioned64 ==
    /\ alg.op = "none"
    /\ alg' = [alg EXCEPT !.op = "check_partitioned",
                          !.out = check_partitioned64(heap, alg.input)]
    /\ UNCHANGED <<manager, heap, gen, last>>

\* partition_quadrants(boxes)
RunPartitionQuadrants64 ==
    /\ alg.op = "none"
    /\ alg' = [alg EXCEPT !.op = "partition_quadrants",
                          !.out = partition_quadrants64(heap, alg.input)]
    /\ UNCHANGED <<manager, heap, gen, last>>

NextFloat ==
    \/ RunDeduplicated64
    \/ RunPartitioned64
    \/ RunPartitionQuadrants64

SpecFloat == InitFloat /\ [][NextFloat]_vars

\* ------------------------------------------------------------------ claims
\* The overlap of two boxes as the data model states it, from corner and size:
\* on each axis the centers are no further apart than the half extents added
\* (touching included).  Written over doubled lengths.
SpecOverlap(a, b) ==
    /\ Abs((2 * a.x + a.width) - (2 * b.x + b.width)) <= a.width + b.width
    /\ Abs((2 * a.y + a.height) - (2 * b.y + b.height)) <= a.height + b.height

\* The unordered overlapping pairs among the entries of a list of boxes.
OverlappingPairs(h, boxes) ==
    {{boxes[i], boxes[j]} : <<i, j>> \in
        {ij \in (1..Len(boxes)) \X (1..Len(boxes)) :
            ij[1] < ij[2] /\ SpecOverlap(h[boxes[ij[1]]], h[boxes[ij[2]]])}}

\* The same, among the stationary entries only.
StationaryPairs(h, boxes) ==
    {{boxes[i], boxes[j]} : <<i, j>> \in
        {ij \in (1..Len(boxes)) \X (1..Len(boxes)) :
            /\ ij[1] < ij[2]
            /\ h[boxes[ij[1]]].stationary /\ h[boxes[ij[2]]].stationary
            /\ SpecOverlap(h[boxes[ij[1]]], h[boxes[ij[2]]])}}

\* C1: after any sequence of register, remove and move calls, a fully consumed
\* yield_collisions() (a first call or a repeated one) yields, as unordered
\* pairs, exactly what check_deduplicated yields over the registered boxes.
C1_ManagerSoundness ==
    last.op = "yield_all" =>
        Unordered(last.out) = Unordered(check_deduplicated(heap, manager.boxes))

\* C2: whenever the cache is valid and stationary_count > 0, the cache holds, as
\* unordered pairs, exactly the overlapping pairs of registered stationary
\* boxes at their current positions.
C2_ValidCacheIsExact ==
    (manager.stationary_cache_valid /\ manager.stationary_count > 0) =>
        Unordered(manager.stationary_cache) = StationaryPairs(heap, manager.boxes)

\* C3: stationary_cache_valid goes from false to true only in a step that
\* consumes a scan to its end; a pull that yields one more pair never sets it.
C3_ValidOnlyAfterFullScan ==
    [][(~manager.stationary_cache_valid /\ manager'.stationary_cache_valid)
         => (last'.op \in {"yield_all", "first_next", "next"} /\ last'.stop)]_vars

\* C4: fully consuming yield_collisions() with stationary_count > 0 and the
\* cache invalid leaves the cache valid, whatever the scan yields.
C4_FullScanValidates ==
    [][(last'.op = "yield_all" /\ manager.stationary_count > 0
            /\ ~manager.stationary_cache_valid)
         => manager'.stationary_cache_valid]_vars

\* C5: right after registering a stationary box, after removing a registered
\* stationary box, and after moving a stationary box that is in the manager's
\* collection, the cache-validity flag is false.
C5_StationaryChangeInvalidates ==
    /\ (last.op = "register" /\ heap[last.box].stationary)
           => ~manager.stationary_cache_valid
    /\ (last.op = "remove" /\ last.raised = None /\ heap[last.box].stationary)
           => ~manager.stationary_cache_valid
    /\ (last.op = "move" /\ heap[last.box].stationary
            /\ last.box \in Range(manager.boxes))
           => ~manager.stationary_cache_valid

\* C6 on small integer coordinates, where float arithmetic is exact:
\* deduplicated, the output of check_partitioned is exactly the set of
\* unordered pairs check_deduplicated yields on the same list.
C6_PartitionedEqualsDeduplicated ==
    alg.op = "check_partitioned" =>
        Unordered(alg.out) = Unordered(check_deduplicated(heap, alg.input))

\* C6 witness: a list long enough to be partitioned twice (more than four
\* groups), with a pair yielded more than once and a pair that does not overlap.
C6_Witness ==
    /\ alg.op = "check_partitioned"
    /\ Len(partition(heap, alg.input, PARTITION_SIZE, MAX_ITERATIONS, 0)) > 4
    /\ Cardinality(Unordered(alg.out)) < Len(alg.out)
    /\ \E i, j \in DOMAIN heap : ~SpecOverlap(heap[i], heap[j])

\* C7: check_exhaustive yields the symmetric closure of what check_deduplicated
\* yields and twice as many pairs; check_deduplicated yields every unordered
\* overlapping pair exactly once and nothing else.
C7_ExhaustiveIsSymmetricClosure ==
    /\ alg.op = "check_exhaustive" =>
          LET d == check_deduplicated(heap, alg.input)
          IN  /\ Range(alg.out) = Range(d) \cup {<<pr[2], pr[1]>> : pr \in Range(d)}
              /\ Len(alg.out) = 2 * Len(d)
    /\ alg.op = "check_deduplicated" =>
          /\ Unordered(alg.out) = OverlappingPairs(heap, alg.input)
          /\ Len(alg.out) = Cardinality(OverlappingPairs(heap, alg.input))

\* C7 witness: check_exhaustive ran on three boxes or more of which some
\* overlap (touching included) and some do not.
C7_Witness ==
    /\ alg.op = "check_exhaustive"
    /\ Len(alg.input) >= 3
    /\ Len(alg.out) >= 4
    /\ \E i, j \in DOMAIN heap : ~SpecOverlap(heap[i], heap[j])

\* The number of entries of the collection whose box is stationary.
StationaryEntries == {i \in 1..Len(manager.boxes) : heap[manager.boxes[i]].stationary}

\* C8: stationary_count is the number of boxes in the collection whose
\* stationary flag is true, in every reachable state.
C8_StationaryCountExact == manager.stationary_count = Cardinality(StationaryEntries)

\* C8 witness: a successful remove has left one stationary box among two.
C8_Witness ==
    /\ last.op = "remove" /\ last.raised = None
    /\ Len(manager.boxes) = 2
    /\ manager.stationary_count = 1

\* C9: remove of a box that is not in the collection raises and changes
\* nothing: not the collection, the count, the cache, the flag, nor any box.
C9_FailedRemoveChangesNothing ==
    [][\A b \in DOMAIN heap :
          (last'.op = "remove" /\ last'.box = b /\ b \notin Range(manager.boxes))
              => (last'.raised = "ValueError" /\ manager' = manager /\ heap' = heap)]_vars

\* C9 witness: a remove has failed on a manager with stationary boxes and a
\* valid, non-empty cache.
C9_Witness ==
    /\ last.op = "remove" /\ last.raised = "ValueError"
    /\ manager.stationary_cache_valid
    /\ manager.stationary_count > 0
    /\ manager.stationary_cache # <<>>

\* The moved box keeps everything but its position, and its derived fields
\* follow the position.
MovedOnly(old, new) ==
    /\ new.width = old.width /\ new.height = old.height
    /\ new.half_width = old.half_width /\ new.half_height = old.half_height
    /\ new.stationary = old.stationary /\ new.manager = old.manager
    /\ new.x2 = new.x + new.width /\ new.y2 = new.y + new.height
    /\ new.cx = new.x + new.half_width /\ new.cy = new.y + new.half_height

\* C10: moving a box that is not stationary, or whose manager is None, leaves
\* the manager as it was; only the moved box's position and derived fields
\* change.
C10_MoveFrame ==
    [][\A b \in DOMAIN heap :
          (last'.op = "move" /\ last'.box = b
               /\ (~heap[b].stationary \/ heap[b].manager = None))
              => /\ manager' = manager
                 /\ \A c \in DOMAIN heap : c # b => heap'[c] = heap[c]
                 /\ MovedOnly(heap[b], heap'[b])]_vars

\* C10 witness: a registered box that is not stationary has just been moved
\* away from its place while the cache is valid and not empty.
C10_Witness ==
    /\ last.op = "move"
    /\ ~heap[last.box].stationary
    /\ heap[last.box].manager = Self
    /\ heap[last.box].x = 8
    /\ manager.stationary_cache_valid
    /\ manager.stationary_cache # <<>>

\* C11: when every registered box is stationary (len(boxes) = stationary_count
\* > 0) and the cache is valid, a fully consumed yield_collisions() yields the
\* entries of stationary_cache and nothing else, raises nothing, and leaves the
\* manager (cache and flag included) as it was.
C11_AllStationaryServedFromCache ==
    [][(/\ last'.op = "yield_all"
        /\ manager.stationary_cache_valid
        /\ manager.stationary_count > 0
        /\ Len(manager.boxes) = manager.stationary_count)
         => (/\ last'.out = manager.stationary_cache
             /\ last'.raised = None
             /\ manager' = manager)]_vars

\* C11 witness: yield_collisions() took the cached arm over two stationary
\* boxes and nothing else, with pairs in the cache.
C11_Witness ==
    /\ last.op = "yield_all" /\ last.branch = "cached"
    /\ manager.stationary_count = 2
    /\ Len(manager.boxes) = 2
    /\ manager.stationary_cache # <<>>
    /\ last.out = manager.stationary_cache

\* How many times a stream of tuples holds the unordered pair {a, b}.
TimesYielded(out, a, b) ==
    Cardinality({k \in 1..Len(out) : {out[k][1], out[k][2]} = {a, b}})

\* How many of the groups hold both a and b.
GroupsWithBoth(parts, a, b) ==
    Cardinality({g \in 1..Len(parts) : a \in Range(parts[g]) /\ b \in Range(parts[g])})

\* C12: check_partitioned does not deduplicate: it yields an overlapping pair
\* once for every leaf group of partition(boxes, 10, 2) that holds both its
\* members (and a pair that does not overlap never).
C12_OncePerSharedLeafGroup ==
    (alg.op = "check_partitioned" /\ alg.input # <<>>) =>
        LET parts == partition(heap, alg.input, PARTITION_SIZE, MAX_ITERATIONS, 0)
        IN  \A a, b \in Range(alg.input) :
                a < b => TimesYielded(alg.out, a, b) =
                             IF SpecOverlap(heap[a], heap[b])
                             THEN GroupsWithBoth(parts, a, b)
                             ELSE 0

\* C12 witness: check_partitioned yielded one pair four times (both boxes
\* straddle the centroid on both axes) and another pair once.
C12_Witness ==
    /\ alg.op = "check_partitioned"
    /\ \E a, b \in Range(alg.input) : a < b /\ TimesYielded(alg.out, a, b) = 4
    /\ \E a, b \in Range(alg.input) : a < b /\ TimesYielded(alg.out, a, b) = 1

\* C13: yield_collisions() (and check_partitioned, which it runs when no box
\* is stationary) raises nothing, whatever the collection and the cache state:
\* no pull and no full consumption ends in an exception.
C13_NoErrorFromQueries ==
    last.op \in {"yield_all", "first_next", "next"} => last.raised = None

\* C13 witness: a full consumption in the cached arm over three entries, all
\* stationary, where 1 - stationary_count / len(boxes) is zero.
C13_Witness ==
    /\ last.op = "yield_all" /\ last.branch = "cached"
    /\ last.raised = None
    /\ Len(manager.boxes) = 3
    /\ manager.stationary_count = 3

\* C14: no box with width <= 0 or height <= 0 is ever constructed, so none is
\* among the boxes a collision query runs on.
C14_NoDegenerateBoxInQuery ==
    alg.op \in {"check_exhaustive", "check_deduplicated", "check_partitioned"} =>
        \A b \in Range(alg.input) : heap[b].width > 0 /\ heap[b].height > 0

\* C15: before any operation on it, a new manager's cache-validity flag is
\* false.
C15_NewManagerCacheInvalid ==
    (last.op = "none" /\ manager.boxes = <<>>) => ~manager.stationary_cache_valid

\* The cached arm has just run to its end over a collection with a box that
\* is not stationary: the cache is valid and check_partition_optimized ran.
OptimizedRan ==
    /\ last.op = "yield_all" /\ last.branch = "cached"
    /\ \E b \in Range(manager.boxes) : ~heap[b].stationary

\* What check_partition_optimized yielded in that call.
OptimizedOut ==
    check_partition_optimized(heap, manager.boxes, manager.stationary_count)

\* C16, first part: check_partition_optimized yields no pair of two stationary
\* boxes, and yields every overlapping pair of distinct boxes of which one at
\* least is not stationary.
C16_OptimizedSkipsOnlyStationaryPairs ==
    OptimizedRan =>
        /\ last.out = manager.stationary_cache \o OptimizedOut
        /\ \A pr \in Range(OptimizedOut) :
               ~(heap[pr[1]].stationary /\ heap[pr[2]].stationary)
        /\ \A a, b \in Range(manager.boxes) :
               (a # b /\ SpecOverlap(heap[a], heap[b])
                     /\ ~(heap[a].stationary /\ heap[b].stationary))
                   => {a, b} \in Unordered(OptimizedOut)

\* C16: the first part, and in the cache-valid state the cached pairs together
\* with the output of check_partition_optimized are exactly the overlapping
\* pairs of the collection.
C16_CacheAndOptimizedCoverAll ==
    /\ C16_OptimizedSkipsOnlyStationaryPairs
    /\ OptimizedRan =>
           Unordered(manager.stationary_cache) \cup Unordered(OptimizedOut)
               = OverlappingPairs(heap, manager.boxes)

\* Every overlapping pair of entries of a list is together in one of the
\* groups at least.
PairsShareGroup(h, boxes, groups) ==
    \A i, j \in 1..Len(boxes) :
        (i < j /\ overlaps(h[boxes[i]], h[boxes[j]]))
            => \E g \in 1..Len(groups) :
                   boxes[i] \in Range(groups[g]) /\ boxes[j] \in Range(groups[g])

\* C17 on small integer coordinates, where float arithmetic is exact: on a
\* non-empty list of boxes with width, height >= 0, partition_quadrants puts every box in one of its four groups at least, and
\* any two boxes that overlap under the center-distance test are together in
\* one group at least.
C17_QuadrantsKeepOverlappingPairs ==
    (alg.op = "partition_quadrants" /\ alg.input # <<>>) =>
        /\ alg.raised = None
        /\ Len(alg.out) = 4
        /\ \A b \in Range(alg.input) : \E g \in 1..4 : b \in Range(alg.out[g])
        /\ PairsShareGroup(heap, alg.input, alg.out)

\* C17 witness: partition_quadrants ran on three boxes of which two overlap
\* and share one group only, and a group is empty.
C17_Witness ==
    /\ alg.op = "partition_quadrants"
    /\ Len(alg.input) = 3
    /\ \E g \in 1..4 : alg.out[g] = <<>>
    /\ \E a, b \in Range(alg.input) :
           /\ a < b /\ overlaps(heap[a], heap[b])
           /\ Cardinality({g \in 1..4 : a \in Range(alg.out[g])
                                           /\ b \in Range(alg.out[g])}) = 1

\* C17 in binary64: partition_quadrants puts every box in one of its four
\* groups at least, and any two boxes that overlap under the center-distance
\* test are together in one group at least.
C17_QuadrantsKeepOverlappingPairs64 ==
    alg.op = "partition_quadrants" =>
        /\ \A b \in Range(alg.input) : \E g \in 1..4 : b \in Range(alg.out[g])
        /\ \A a, b \in Range(alg.input) :
               (a < b /\ overlaps64(heap[a], heap[b]))
                   => \E g \in 1..4 : a \in Range(alg.out[g]) /\ b \in Range(alg.out[g])

\* C6 in binary64: deduplicated, the output of check_partitioned is exactly the
\* set of unordered pairs check_deduplicated yields on the same list.
C6_PartitionedEqualsDeduplicated64 ==
    alg.op = "check_partitioned" =>
        Unordered(alg.out) = Unordered(check_deduplicated64(heap, alg.input))

\* C18: after any sequence of register and remove calls, a box is in the
\* manager's collection if and only if its back-reference is the manager.
C18_InCollectionIffBackReference ==
    \A b \in DOMAIN heap :
        (b \in Range(manager.boxes)) <=> (heap[b].manager = Self)

\* C19: the collection holds no box more than once, and yield_collisions()
\* yields no pair whose two members are the same box.
C19_NoDuplicateNoSelfPair ==
    /\ \A i, j \in 1..Len(manager.boxes) :
           i # j => manager.boxes[i] # manager.boxes[j]
    /\ last.op = "yield_all" => \A pr \in Range(last.out) : pr[1] # pr[2]

\* The groups partition yielded in the call of alg, each with the length of
\* the list it was split from and the iteration it was yielded at.
Leaves ==
    partition_leaves(heap, alg.input, alg.args[1], alg.args[2], 0, Len(alg.input))

\* C20: partition(boxes, partition_size, max_iterations) on a non-empty list
\* ends, goes no deeper than max_iterations levels, yields 4^max_iterations
\* groups at most, and every group it yields is a leaf: no longer than
\* partition_size, or as long as the group it was split from, or reached at
\* iteration = max_iterations.
C20_PartitionLeaves ==
    (alg.op = "partition" /\ alg.input # <<>>) =>
        /\ alg.raised = None
        /\ alg.out = [k \in 1..Len(Leaves) |-> Leaves[k].p]
        /\ Len(alg.out) <= 4 ^ alg.args[2]
        /\ \A k \in 1..Len(Leaves) :
               /\ Leaves[k].it <= alg.args[2]
               /\ \/ Len(Leaves[k].p) <= alg.args[1]
                  \/ Len(Leaves[k].p) = Leaves[k].plen
                  \/ Leaves[k].it = alg.args[2]

\* C20 witness: partition(boxes, 10, 2) yielded more than four groups, one of
\* them at the recursion floor, longer than partition_size and shorter than
\* the group it was split from.
C20_Witness ==
    /\ alg.op = "partition"
    /\ alg.args = <<PARTITION_SIZE, MAX_ITERATIONS>>
    /\ Len(alg.out) > 4
    /\ \E k \in 1..Len(Leaves) :
           /\ Leaves[k].it = MAX_ITERATIONS
           /\ Len(Leaves[k].p) > PARTITION_SIZE
           /\ Len(Leaves[k].p) < Leaves[k].plen

\* C21, first part: every pair (a, b) check_partitioned yields has a before b
\* in the input list (the input of alg is the list of the boxes 1, 2, ... in
\* this order, so a position is an identity).
C21_InputOrderKept ==
    alg.op = "check_partitioned" => \A pr \in Range(alg.out) : pr[1] < pr[2]

\* C21 in binary64: every pair check_partitioned yields has its first member
\* before its second in the input list, and the set of ordered tuples it
\* yields is the set of ordered tuples check_deduplicated yields.
C21_OrderedTuplesEqual64 ==
    alg.op = "check_partitioned" =>
        /\ \A pr \in Range(alg.out) : pr[1] < pr[2]
        /\ Range(alg.out) = Range(check_deduplicated64(heap, alg.input))

\* C21 on small integer coordinates, where float arithmetic is exact.
C21_OrderedTuplesEqual ==
    alg.op = "check_partitioned" =>
        /\ \A pr \in Range(alg.out) : pr[1] < pr[2]
        /\ Range(alg.out) = Range(check_deduplicated(heap, alg.input))

====
